---- MODULE Spec2Model ----
(***************************************************************************)
(* easy-cli: the annotation scanner (builder.rs), the grouping fold        *)
(* (collect) and the command assembly (build_script_command).              *)
(*                                                                         *)
(* A text is a sequence of one-character strings.  A parser of the nom     *)
(* library is an operator of a text t and a position p (the input is the   *)
(* suffix of t that starts at p); it yields Ok(p2, o) with p2 the position *)
(* of the remaining input and o the output, or Error, or Incomplete.       *)
(***************************************************************************)
EXTENDS Integers, Sequences, FiniteSets, TLC

(* ------------------------------------------------------------------ *)
(* Option values                                                      *)
(* ------------------------------------------------------------------ *)
None == [some |-> FALSE]
Some(v) == [some |-> TRUE, v |-> v]

(* ------------------------------------------------------------------ *)
(* Characters and strings                                             *)
(* ------------------------------------------------------------------ *)
SP == " "
TAB == "\t"
CR == "\r"
LF == "\n"

\* nom: is_space, the characters space0 skips
SpaceChars == {SP, TAB}
\* nom: the characters multispace0 skips
MultiSpaceChars == {SP, TAB, CR, LF}
\* an identifier that ends at whitespace only
IdentifierStopNoHyphen == {SP, TAB, CR, LF}
\* builder.rs:116, the characters that end an identifier
IdentifierStop == {SP, TAB, CR, LF, "-"}

Upper == <<"A","B","C","D","E","F","G","H","I","J","K","L","M",
           "N","O","P","Q","R","S","T","U","V","W","X","Y","Z">>
Lower == <<"a","b","c","d","e","f","g","h","i","j","k","l","m",
           "n","o","p","q","r","s","t","u","v","w","x","y","z">>

\* char::to_ascii_lowercase
ToLower(c) ==
    IF \E i \in DOMAIN Upper : Upper[i] = c
    THEN Lower[CHOOSE i \in DOMAIN Upper : Upper[i] = c]
    ELSE c

\* str::eq_ignore_ascii_case
EqIgnoreCase(s, u) ==
    /\ Len(s) = Len(u)
    /\ \A i \in 1..Len(s) : ToLower(s[i]) = ToLower(u[i])

\* the half-open slice t[a..b)
Slice(t, a, b) == SubSeq(t, a, b - 1)

\* the suffix of t starting at position p
From(t, p) == SubSeq(t, p, Len(t))

\* str::find: the least position i >= p of t whose character is in S; 0 if none
FindIn(t, p, S) ==
    LET I == {i \in p..Len(t) : t[i] \in S}
    IN  IF I = {} THEN 0 ELSE CHOOSE i \in I : \A j \in I : i <= j

\* the least position i >= p of t whose character is not in S; 0 if none
FindNotIn(t, p, S) ==
    LET I == {i \in p..Len(t) : t[i] \notin S}
    IN  IF I = {} THEN 0 ELSE CHOOSE i \in I : \A j \in I : i <= j

(* ------------------------------------------------------------------ *)
(* Parser results (nom::IResult)                                      *)
(* ------------------------------------------------------------------ *)
Ok(p, o) == [k |-> "ok", p |-> p, o |-> o]
Error == [k |-> "error"]
Incomplete == [k |-> "incomplete"]
IsOk(r) == r.k = "ok"

(* ------------------------------------------------------------------ *)
(* nom primitives                                                     *)
(* ------------------------------------------------------------------ *)
\* nom::character::streaming::space0: Incomplete when the input ends
\* before a character that is no space or tab
space0(t, p) ==
    LET i == FindNotIn(t, p, SpaceChars)
    IN  IF i = 0 THEN Incomplete ELSE Ok(i, Slice(t, p, i))

\* nom::character::streaming::multispace0: skips line breaks too
multispace0(t, p) ==
    LET i == FindNotIn(t, p, MultiSpaceChars)
    IN  IF i = 0 THEN Incomplete ELSE Ok(i, Slice(t, p, i))

\* nom::character::complete::space0: the end of input ends the run
space0_complete(t, p) ==
    LET i == FindNotIn(t, p, SpaceChars)
    IN  IF i = 0 THEN Ok(Len(t) + 1, From(t, p)) ELSE Ok(i, Slice(t, p, i))

\* nom::character::complete::anychar
anychar(t, p) == IF p > Len(t) THEN Error ELSE Ok(p + 1, t[p])

\* nom::character::complete::char
char(c, t, p) == IF p <= Len(t) /\ t[p] = c THEN Ok(p + 1, c) ELSE Error

\* nom::bytes::streaming::is_not: at least one character outside S, up to
\* the first character of S; Incomplete when no character of S follows
is_not(S, t, p) ==
    LET i == FindIn(t, p, S)
    IN  IF i = 0 THEN Incomplete
        ELSE IF i = p THEN Error
        ELSE Ok(i, Slice(t, p, i))

\* nom::character::streaming::not_line_ending: up to, not including, the
\* first "\n" or "\r\n"; a "\r" that no "\n" follows is an Error
not_line_ending(t, p) ==
    LET i == FindIn(t, p, {CR, LF})
    IN  IF i = 0 THEN Incomplete
        ELSE IF t[i] = LF THEN Ok(i, Slice(t, p, i))
        ELSE IF i + 1 > Len(t) THEN Incomplete
        ELSE IF t[i + 1] = LF THEN Ok(i, Slice(t, p, i))
        ELSE Error

\* nom::bytes::complete::tag_no_case
tag_no_case(w, t, p) ==
    IF /\ p + Len(w) - 1 <= Len(t)
       /\ \A i \in 1..Len(w) : ToLower(t[p + i - 1]) = ToLower(w[i])
    THEN Ok(p + Len(w), Slice(t, p, p + Len(w)))
    ELSE Error

\* nom::combinator::rest
rest(t, p) == Ok(Len(t) + 1, From(t, p))

\* nom::combinator::opt applied to the result r of the inner parser at p:
\* an Error becomes Ok(None) without consuming, Incomplete stays
opt(r, p) ==
    IF r.k = "ok" THEN Ok(r.p, Some(r.o))
    ELSE IF r.k = "error" THEN Ok(p, None)
    ELSE r

\* sequencing (preceded, terminated, pair, tuple, flat_map): the parser
\* K goes on from the result r of the parser before it, whose Error or
\* Incomplete is the result of the sequence
AndThen(r, K(_)) == IF r.k = "ok" THEN K(r) ELSE r

\* nom::combinator::map and value: the output of an Ok result is replaced
MapOk(r, F(_)) == IF r.k = "ok" THEN Ok(r.p, F(r.o)) ELSE r

\* Option::unwrap_or
UnwrapOr(o, d) == IF o.some THEN o.v ELSE d

(* ------------------------------------------------------------------ *)
(* Tags (builder.rs DocTag) and the model types (model.rs)            *)
(* ------------------------------------------------------------------ *)
TRUE_LIT == <<"t","r","u","e">>
FALSE_LIT == <<"f","a","l","s","e">>

IGNORE_TAG == <<"i","g","n","o","r","e">>
SUB_TAG == <<"s","u","b">>
NAME_TAG == <<"n","a","m","e">>
ABOUT_TAG == <<"a","b","o","u","t">>
ARG_TAG == <<"a","r","g">>
VAR_ARG_TAG == <<"v","a","r","a","r","g">>
OPT_TAG == <<"o","p","t">>

\* a type mapping that compares letter case too
ArgTypeFromExact(s) ==
    IF s = <<"p","a","t","h">> THEN "Path"
    ELSE IF s = <<"f","i","l","e">> THEN "File"
    ELSE IF s = <<"d","i","r">> THEN "Dir"
    ELSE "Unknown"

\* model.rs ArgType::from
ArgTypeFrom(s) ==
    IF EqIgnoreCase(s, <<"p","a","t","h">>) THEN "Path"
    ELSE IF EqIgnoreCase(s, <<"f","i","l","e">>) THEN "File"
    ELSE IF EqIgnoreCase(s, <<"d","i","r">>) THEN "Dir"
    ELSE "Unknown"

\* model.rs CommandArg::new
CommandArg(name, optional, var_arg, arg_type, description) ==
    [name |-> name, optional |-> optional, var_arg |-> var_arg,
     arg_type |-> arg_type, description |-> description]

\* model.rs CommandOption::new
CommandOption(name, short, has_param, description) ==
    [name |-> name, short |-> short, has_param |-> has_param,
     description |-> description]

IgnoreTag == [t |-> "Ignore"]
NameTag(name) == [t |-> "Name", name |-> name]
SubTag(name, path) == [t |-> "Sub", name |-> name, path |-> path]
AboutTag(text) == [t |-> "About", text |-> text]
ArgDocTag(arg) == [t |-> "Arg", arg |-> arg]
OptDocTag(o) == [t |-> "Opt", opt |-> o]

(* ------------------------------------------------------------------ *)
(* Tag detail parsers                                                 *)
(* ------------------------------------------------------------------ *)
\* builder.rs identifier
identifier(t, p) == is_not(IdentifierStop, t, p)

\* builder.rs ignore_tag
ignore_tag(t, p) ==
    MapOk(not_line_ending(t, p), LAMBDA o : Some(IgnoreTag))

\* terminated(preceded(multispace0, identifier), not_line_ending): the
\* identifier, with the position after the rest of the line
IdentifierLine(t, p) ==
    AndThen(multispace0(t, p), LAMBDA w :
    AndThen(identifier(t, w.p), LAMBDA id :
    AndThen(not_line_ending(t, id.p), LAMBDA e : Ok(e.p, id.o))))

\* builder.rs name_tag
name_tag(t, p) ==
    MapOk(IdentifierLine(t, p), LAMBDA o : Some(NameTag(o)))

\* builder.rs sub_tag
sub_tag(t, p) ==
    MapOk(IdentifierLine(t, p), LAMBDA o : Some(SubTag(o, None)))

\* builder.rs padded(not_line_ending): preceded(space0, not_line_ending)
PaddedLine(t, p) ==
    AndThen(space0(t, p), LAMBDA w : not_line_ending(t, w.p))

\* an about parser that keeps the whitespace after the keyword
about_tag_untrimmed(t, p) ==
    MapOk(not_line_ending(t, p), LAMBDA o : Some(AboutTag(o)))

\* builder.rs about_tag
about_tag(t, p) ==
    MapOk(PaddedLine(t, p), LAMBDA o : Some(AboutTag(o)))

\* builder.rs none_if_empty
none_if_empty(s) == IF Len(s) > 0 THEN Some(s) ELSE None

\* alt((value(true, tag_no_case(TRUE)), value(false, tag_no_case(FALSE))))
BoolLiteral(t, p) ==
    IF IsOk(tag_no_case(TRUE_LIT, t, p))
    THEN Ok(p + Len(TRUE_LIT), TRUE)
    ELSE MapOk(tag_no_case(FALSE_LIT, t, p), LAMBDA o : FALSE)

\* builder.rs padded_bool
padded_bool(t, p) ==
    AndThen(space0_complete(t, p), LAMBDA w : BoolLiteral(t, w.p))

\* builder.rs padded_bool_default_false
padded_bool_default_false(t, p) ==
    MapOk(opt(padded_bool(t, p), p), LAMBDA o : UnwrapOr(o, FALSE))

\* builder.rs arg_type
arg_type(t, p) ==
    AndThen(space0_complete(t, p), LAMBDA w :
    AndThen(char("<", t, w.p), LAMBDA lt :
    AndThen(is_not({">"}, t, lt.p), LAMBDA ty :
    AndThen(char(">", t, ty.p), LAMBDA gt : Ok(gt.p, ArgTypeFrom(ty.o))))))

\* preceded(nom::character::complete::space0, rest)
TrimmedRest(t, p) ==
    AndThen(space0_complete(t, p), LAMBDA w : rest(t, w.p))

\* builder.rs arg_details, on the details string
arg_details(name, var_arg, input) ==
    AndThen(opt(padded_bool(input, 1), 1), LAMBDA optional :
    AndThen(opt(arg_type(input, optional.p), optional.p), LAMBDA ty :
    AndThen(TrimmedRest(input, ty.p), LAMBDA r :
        Ok(r.p, Some(ArgDocTag(CommandArg(
            name,
            UnwrapOr(optional.o, FALSE),
            var_arg,
            UnwrapOr(ty.o, "Unknown"),
            none_if_empty(r.o))))))))

\* the short flag of opt_details: delimited(char('\''), anychar, char('\''))
QuotedChar(t, p) ==
    AndThen(char("'", t, p), LAMBDA q1 :
    AndThen(anychar(t, q1.p), LAMBDA c :
    AndThen(char("'", t, c.p), LAMBDA q2 : Ok(q2.p, c.o))))

\* builder.rs opt_details, on the details string
opt_details(name, input) ==
    AndThen(space0_complete(input, 1), LAMBDA w :
    AndThen(opt(QuotedChar(input, w.p), w.p), LAMBDA short :
    AndThen(padded_bool_default_false(input, short.p), LAMBDA has_param :
    AndThen(TrimmedRest(input, has_param.p), LAMBDA r :
        Ok(r.p, Some(OptDocTag(CommandOption(
            name, short.o, has_param.o, none_if_empty(r.o)))))))))

\* preceded(multispace0, pair(identifier, padded(not_line_ending))): the
\* name and the details string of an arg, vararg or opt line
NameAndDetails(t, p) ==
    AndThen(multispace0(t, p), LAMBDA w :
    AndThen(identifier(t, w.p), LAMBDA id :
    AndThen(PaddedLine(t, id.p), LAMBDA e :
        Ok(e.p, [name |-> id.o, details |-> e.o]))))

\* inner_res.map(|(_, o)| o).unwrap_or(None): a failure of the details
\* parser gives no tag
InnerTag(inner) == IF IsOk(inner) THEN inner.o ELSE None

\* builder.rs arg_var_arg
arg_var_arg(var_arg, t, p) ==
    MapOk(NameAndDetails(t, p),
          LAMBDA o : InnerTag(arg_details(o.name, var_arg, o.details)))

\* builder.rs arg_tag
arg_tag(t, p) == arg_var_arg(FALSE, t, p)

\* builder.rs var_arg_tag
var_arg_tag(t, p) == arg_var_arg(TRUE, t, p)

\* builder.rs opt_tag
opt_tag(t, p) ==
    MapOk(NameAndDetails(t, p),
          LAMBDA o : InnerTag(opt_details(o.name, o.details)))

\* builder.rs unknown_tag
unknown_tag(t, p) ==
    MapOk(not_line_ending(t, p), LAMBDA o : None)

(* ------------------------------------------------------------------ *)
(* Tag scanner                                                        *)
(* ------------------------------------------------------------------ *)
\* builder.rs parser_for_tag, applied at p
parser_for_tag(tag, t, p) ==
    IF tag = IGNORE_TAG THEN ignore_tag(t, p)
    ELSE IF tag = NAME_TAG THEN name_tag(t, p)
    ELSE IF tag = SUB_TAG THEN sub_tag(t, p)
    ELSE IF tag = ABOUT_TAG THEN about_tag(t, p)
    ELSE IF tag = ARG_TAG THEN arg_tag(t, p)
    ELSE IF tag = VAR_ARG_TAG THEN var_arg_tag(t, p)
    ELSE IF tag = OPT_TAG THEN opt_tag(t, p)
    ELSE unknown_tag(t, p)

\* builder.rs doc_tag
doc_tag(t, p) ==
    AndThen(identifier(t, p), LAMBDA id : parser_for_tag(id.o, t, id.p))

\* preceded(multispace0, anychar)
FirstChar(t, p) ==
    AndThen(multispace0(t, p), LAMBDA w : anychar(t, w.p))

\* builder.rs doc_tag_or_not
doc_tag_or_not(t, p) ==
    AndThen(FirstChar(t, p), LAMBDA c :
        IF c.o = "@" THEN doc_tag(t, c.p) ELSE unknown_tag(t, c.p))

\* builder.rs comment_or_not
comment_or_not(t, p) ==
    AndThen(FirstChar(t, p), LAMBDA c :
        IF c.o = "#" THEN doc_tag_or_not(t, c.p) ELSE unknown_tag(t, c.p))

(* ------------------------------------------------------------------ *)
(* Group collector (builder.rs collect)                               *)
(* ------------------------------------------------------------------ *)
\* a fold that never starts a group: every tag goes to the last group
FoldTagNoSplit(groups, tag) ==
    [groups EXCEPT ![Len(groups)] = Append(groups[Len(groups)], tag)]

\* a fold that starts the new group empty, without its Sub tag
FoldTagDropSub(groups, tag) ==
    IF tag.t = "Sub"
    THEN Append(groups, <<>>)
    ELSE [groups EXCEPT ![Len(groups)] = Append(groups[Len(groups)], tag)]

\* a fold that starts a new group on a Name tag as well
FoldTagSplitOnName(groups, tag) ==
    IF tag.t \in {"Sub", "Name"}
    THEN Append(groups, <<tag>>)
    ELSE [groups EXCEPT ![Len(groups)] = Append(groups[Len(groups)], tag)]

\* the step of the fold of collect: a Sub tag starts a new group, any
\* other tag is pushed onto the last group
FoldTag(groups, tag) ==
    IF tag.t = "Sub"
    THEN Append(groups, <<tag>>)
    ELSE [groups EXCEPT ![Len(groups)] = Append(groups[Len(groups)], tag)]

\* a finish that takes the Incomplete end of the iteration for an error
finish_with_val_strict(state, value) ==
    IF state = "Done"
    THEN [ok |-> TRUE, v |-> value]
    ELSE [ok |-> FALSE, e |-> "Incomplete"]

\* ParserIterator::finish followed by finish_with_val: the groups are the
\* value both when the iterator ended on an Error (Done) and when it ended
\* on Incomplete; only a Failure, which no parser here raises, is an Err
finish_with_val(state, value) ==
    IF state \in {"Done", "Incomplete"}
    THEN [ok |-> TRUE, v |-> value]
    ELSE [ok |-> FALSE, e |-> "Failure"]

(* ------------------------------------------------------------------ *)
(* Command assembler (builder.rs build_script_command)                *)
(* ------------------------------------------------------------------ *)
\* utils.rs strip_file_suffix: the first match of the regex ".[^.]*$" is
\* removed.  "." matches any character but a line feed, so the match
\* starts at the least position after which no '.' occurs.
strip_file_suffix(name) ==
    LET I == {i \in 1..Len(name) :
                 /\ name[i] # LF
                 /\ \A j \in (i + 1)..Len(name) : name[j] # "."}
    IN  IF I = {} THEN name
        ELSE Slice(name, 1, CHOOSE i \in I : \A j \in I : i <= j)

\* builder.rs default_name; a path is modelled by its file name
default_name(path) == strip_file_suffix(path)

\* model.rs ScriptCommand::new
ScriptCommand(name, description, path, options, args, sub_commands) ==
    [name |-> name, description |-> description, path |-> Some(path),
     options |-> options, args |-> args, sub_commands |-> sub_commands]

\* model.rs EmbeddedCommand::new: no path, no sub-commands
EmbeddedCommand(name, description, options, args) ==
    [name |-> name, description |-> description, path |-> None,
     options |-> options, args |-> args, sub_commands |-> <<>>]

SYNTHETIC_NAME == <<"a","r","g","s">>
SYNTHETIC_ABOUT ==
    <<"A","n","y"," ","a","r","g","u","m","e","n","t","s"," ","a","r","e"," ">> \o
    <<"p","a","s","s","e","d"," ","t","o"," ","t","h","e"," ","s","c","r","i","p","t">>

\* the synthetic argument built with var_arg = false
SyntheticArgNotVariadic ==
    CommandArg(SYNTHETIC_NAME, TRUE, FALSE, "Unknown", Some(SYNTHETIC_ABOUT))

\* builder.rs:369-375, the argument of a file without tags
SyntheticArg ==
    CommandArg(SYNTHETIC_NAME, TRUE, TRUE, "Unknown", Some(SYNTHETIC_ABOUT))

NoFields == [opts |-> <<>>, args |-> <<>>, description |-> None, name |-> None]

\* group 0 with every argument inserted at the front of the list
MainTagPrepend(acc, tag) ==
    IF tag.t = "Arg" THEN [acc EXCEPT !.args = <<tag.arg>> \o @]
    ELSE IF tag.t = "Opt" THEN [acc EXCEPT !.opts = Append(@, tag.opt)]
    ELSE IF tag.t = "About" THEN [acc EXCEPT !.description = Some(tag.text)]
    ELSE IF tag.t = "Name" THEN [acc EXCEPT !.name = Some(tag.name)]
    ELSE acc

\* group 0 with the first Name tag kept instead of the last
MainTagFirstName(acc, tag) ==
    IF tag.t = "Arg" THEN [acc EXCEPT !.args = Append(@, tag.arg)]
    ELSE IF tag.t = "Opt" THEN [acc EXCEPT !.opts = Append(@, tag.opt)]
    ELSE IF tag.t = "About" THEN [acc EXCEPT !.description = Some(tag.text)]
    ELSE IF tag.t = "Name" /\ ~acc.name.some
         THEN [acc EXCEPT !.name = Some(tag.name)]
    ELSE acc

\* builder.rs:391-397, one tag of group 0
MainTag(acc, tag) ==
    IF tag.t = "Arg" THEN [acc EXCEPT !.args = Append(@, tag.arg)]
    ELSE IF tag.t = "Opt" THEN [acc EXCEPT !.opts = Append(@, tag.opt)]
    ELSE IF tag.t = "About" THEN [acc EXCEPT !.description = Some(tag.text)]
    ELSE IF tag.t = "Name" THEN [acc EXCEPT !.name = Some(tag.name)]
    ELSE acc

\* a sub-command group with the first About tag kept instead of the last
SubGroupTagFirstAbout(acc, tag) ==
    IF tag.t = "Arg" THEN [acc EXCEPT !.args = Append(@, tag.arg)]
    ELSE IF tag.t = "Opt" THEN [acc EXCEPT !.opts = Append(@, tag.opt)]
    ELSE IF tag.t = "About" /\ ~acc.description.some
         THEN [acc EXCEPT !.description = Some(tag.text)]
    ELSE acc

\* builder.rs:413-418, one tag of a sub-command group
SubGroupTag(acc, tag) ==
    IF tag.t = "Arg" THEN [acc EXCEPT !.args = Append(@, tag.arg)]
    ELSE IF tag.t = "Opt" THEN [acc EXCEPT !.opts = Append(@, tag.opt)]
    ELSE IF tag.t = "About" THEN [acc EXCEPT !.description = Some(tag.text)]
    ELSE acc

RECURSIVE MainFields(_, _)
\* builder.rs:391-397, for_each over the first n tags of group 0
MainFields(tags, n) ==
    IF n = 0 THEN NoFields ELSE MainTag(MainFields(tags, n - 1), tags[n])

RECURSIVE SubFields(_, _)
\* builder.rs:413-418, for_each over the first n tags after the Sub tag
SubFields(tags, n) ==
    IF n = 0 THEN NoFields ELSE SubGroupTag(SubFields(tags, n - 1), tags[n])

\* builder.rs:400-420, the command of one group after the first
SubCommand(group) ==
    IF Len(group) = 0 \/ group[1].t # "Sub"
    THEN [ok |-> FALSE, e |-> "No sub tag found"]
    ELSE LET f == SubFields(Tail(group), Len(group) - 1)
         IN  [ok |-> TRUE,
              v |-> EmbeddedCommand(group[1].name, f.description, f.opts, f.args)]

RECURSIVE SubCommands(_, _)
\* builder.rs:421-433, the fold over the commands of groups 2..n: the
\* first Err is kept
SubCommands(groups, n) ==
    IF n <= 1 THEN [ok |-> TRUE, v |-> <<>>]
    ELSE LET acc == SubCommands(groups, n - 1)
             res == SubCommand(groups[n])
         IN  IF ~acc.ok THEN acc
             ELSE IF ~res.ok THEN res
             ELSE [ok |-> TRUE, v |-> Append(acc.v, res.v)]

\* the ignore test taken for "Ignore is the only tag of group 0"
IsIgnoredAlone(groups) ==
    Len(groups[1]) = 1 /\ groups[1][1] = IgnoreTag

\* the ignore test taken for "group 0 holds an Ignore tag"
IsIgnoredAnywhere(groups) ==
    \E i \in 1..Len(groups[1]) : groups[1][i] = IgnoreTag

\* builder.rs:378, the file is excluded
IsIgnored(groups) ==
    Len(groups[1]) > 0 /\ groups[1][1] = IgnoreTag

\* the assembly that takes an empty group 0 for a file without tags, also
\* when sub-command groups follow
AssembleEmptyMain(groups, path) ==
    IF Len(groups) = 0 \/ Len(groups[1]) = 0
    THEN [ok |-> TRUE,
          v |-> Some(ScriptCommand(default_name(path), None, path,
                                   <<>>, <<SyntheticArg>>, <<>>))]
    ELSE IF IsIgnored(groups)
    THEN [ok |-> TRUE, v |-> None]
    ELSE LET f == MainFields(groups[1], Len(groups[1]))
             subs == SubCommands(groups, Len(groups))
         IN  IF ~subs.ok THEN subs
             ELSE [ok |-> TRUE,
                   v |-> Some(ScriptCommand(
                       IF f.name.some THEN f.name.v ELSE default_name(path),
                       f.description, path, f.opts, f.args, subs.v))]

\* builder.rs:360-446, from the groups to Ok(Some(command)), Ok(None) or Err
Assemble(groups, path) ==
    IF Len(groups) = 0 \/ (Len(groups) = 1 /\ Len(groups[1]) = 0)
    THEN [ok |-> TRUE,
          v |-> Some(ScriptCommand(default_name(path), None, path,
                                   <<>>, <<SyntheticArg>>, <<>>))]
    ELSE IF IsIgnored(groups)
    THEN [ok |-> TRUE, v |-> None]
    ELSE LET f == MainFields(groups[1], Len(groups[1]))
             subs == SubCommands(groups, Len(groups))
         IN  IF ~subs.ok THEN subs
             ELSE [ok |-> TRUE,
                   v |-> Some(ScriptCommand(
                       IF f.name.some THEN f.name.v ELSE default_name(path),
                       f.description, path, f.opts, f.args, subs.v))]

(* ------------------------------------------------------------------ *)
(* Inputs: file names and file contents                               *)
(* ------------------------------------------------------------------ *)
\* the line : an empty line
L_blank == <<>>
\* the line ls: a code line
L_code == <<"l","s">>
\* the line #: a bare comment
L_hash == <<"#">>
\* the line # hi: a comment without '@'
L_plain == <<"#"," ","h","i">>
\* the line # @foo x: an unknown keyword
L_unknown == <<"#"," ","@","f","o","o"," ","x">>
\* the line # @ignore
L_ignore == <<"#"," ","@","i","g","n","o","r","e">>
\* the line # @name n
L_name == <<"#"," ","@","n","a","m","e"," ","n">>
\* the line #@name m x: no space after '#', text after the name
L_name2 == <<"#","@","n","a","m","e"," ","m"," ","x">>
\* the line # @sub s
L_sub == <<"#"," ","@","s","u","b"," ","s">>
\* the line # @sub t
L_sub2 == <<"#"," ","@","s","u","b"," ","t">>
\* the line # @about d
L_about == <<"#"," ","@","a","b","o","u","t"," ","d">>
\* the line \t# @about  e\r: leading whitespace, ended by CR LF
L_about_crlf == <<"\t","#"," ","@","a","b","o","u","t"," "," ","e","\r">>
\* the line # @arg b true <file> c
L_arg_full == <<"#"," ","@","a","r","g"," ","b"," ","t","r","u","e"," ","<","f","i","l","e",">"," ","c">>
\* the line # @vararg v
L_vararg == <<"#"," ","@","v","a","r","a","r","g"," ","v">>
\* the line # @opt o
L_opt == <<"#"," ","@","o","p","t"," ","o">>
\* the line # @opt p 'q' true r
L_opt_full == <<"#"," ","@","o","p","t"," ","p"," ","'","q","'"," ","t","r","u","e"," ","r">>
\* the line # @name: a name line without identifier
L_name_only == <<"#"," ","@","n","a","m","e">>
\* the line # @: an '@' without keyword
L_at_only == <<"#"," ","@">>
\* the line # @name -x: a name line whose token starts with '-'
L_name_dash == <<"#"," ","@","n","a","m","e"," ","-","x">>

\* the lines a file content is made of
Lines ==
    {L_blank, L_code, L_hash, L_plain,
     L_unknown, L_ignore, L_name, L_name2,
     L_sub, L_sub2, L_about, L_about_crlf,
     L_arg_full, L_vararg, L_opt, L_opt_full,
     L_name_only, L_at_only, L_name_dash}

\* the file names: with a suffix, and without any '.'
FileNames == {<<"a",".","s","h">>, <<"b">>}

\* the largest number of lines of a file content
MaxLines == 3

RECURSIVE Join(_, _)
\* the first n lines of ls, separated by line feeds
Join(ls, n) ==
    IF n = 0 THEN <<>>
    ELSE IF n = 1 THEN ls[1]
    ELSE Join(ls, n - 1) \o <<LF>> \o ls[n]

\* the content left as it is read
EnsureNewlineNever(c) == c

\* builder.rs:354-356: a line feed is pushed unless the content ends with one
EnsureNewline(c) ==
    IF Len(c) > 0 /\ c[Len(c)] = LF THEN c ELSE Append(c, LF)

RECURSIVE ScanFrom(_, _, _)
\* builder.rs:326-337 as a function: the tags the iterator yields on the
\* input t from position p on, after the tags acc; r is the result of
\* comment_or_not at p
ScanStep(t, acc, r) ==
    IF IsOk(r)
    THEN ScanFrom(t, r.p, IF r.o.some THEN Append(acc, r.o.v) ELSE acc)
    ELSE acc

ScanFrom(t, p, acc) == ScanStep(t, acc, comment_or_not(t, p))

\* the tag stream of a file content
TagsOf(c) == ScanFrom(EnsureNewline(c), 1, <<>>)

RECURSIVE Collect(_, _)
\* builder.rs:326-337 as a function: the fold over the first n tags of ts
Collect(ts, n) ==
    IF n = 0 THEN << <<>> >> ELSE FoldTag(Collect(ts, n - 1), ts[n])

\* builder.rs:349-453 as a function: the value build_script_command returns
\* for a readable file of content c
BuildResult(c, p) == Assemble(Collect(TagsOf(c), Len(TagsOf(c))), p)

(* ------------------------------------------------------------------ *)
(* Inputs: files of one tag line                                      *)
(* ------------------------------------------------------------------ *)
\* the tokens the details of a tag line are made of
T_true == <<"t","r","u","e">>
T_False == <<"F","a","l","s","e">>
T_truex == <<"t","r","u","e","x">>
T_file == <<"<","f","i","l","e",">">>
T_DIR == <<"<","D","I","R",">">>
T_Path == <<"<","P","a","t","h",">">>
T_int == <<"<","i","n","t",">">>
\* the token <x, an angle bracket that is not closed
T_open == <<"<","x">>
T_q == <<"'","q","'">>
\* the token 'q'x, a quoted character with a character after it
T_qx == <<"'","q","'","x">>
T_e == <<"e">>
T_c == <<"c">>

\* the tokens after the name of an arg or vararg line
ArgTokens ==
    {T_true, T_False, T_truex, T_file, T_DIR, T_Path, T_int, T_open, T_c}
\* the tokens after the name of an opt line
OptTokens == {T_q, T_qx, T_true, T_truex, T_e, T_c}
\* the tokens after the identifier of a name or sub line
IdTokens == {T_c}
\* the tokens of an about line
AboutTokens == {T_e, T_c}

\* the names: a plain one and one with a hyphen
PlainNames == {<<"b">>}
HyphenNames == {<<"a","-","b">>}
Names == PlainNames \cup HyphenNames

\* the whitespace between the keyword about and its text
Seps == {<<SP>>, <<SP, TAB>>}
\* the whitespace at the end of a line
Trails == {<<>>, <<SP>>}

\* the largest number of tokens after the name of a tag line
MaxTokens == 3

\* the sequences of up to MaxTokens tokens of the set pool
TokenSeqs(pool) == UNION {[1..n -> pool] : n \in 0..MaxTokens}

RECURSIVE JoinTokens(_, _)
\* the first n tokens of ts, separated by single spaces
JoinTokens(ts, n) ==
    IF n = 0 THEN <<>>
    ELSE IF n = 1 THEN ts[1]
    ELSE JoinTokens(ts, n - 1) \o <<SP>> \o ts[n]

\* the line "# @<kw> <name> <tokens><trail>"
TagLine(kw, name, ts, trail) ==
    <<"#", SP, "@">> \o kw \o <<SP>> \o name \o
    (IF Len(ts) = 0 THEN <<>> ELSE <<SP>> \o JoinTokens(ts, Len(ts))) \o trail

\* the line "# @about<sep><tokens><trail>"
AboutLine(sep, ts, trail) ==
    <<"#", SP, "@">> \o ABOUT_TAG \o sep \o JoinTokens(ts, Len(ts)) \o trail

\* the contents of the files of one tag line
LineContents ==
    {TagLine(kw, nm, ts, tr) :
        kw \in {ARG_TAG, VAR_ARG_TAG}, nm \in Names,
        ts \in TokenSeqs(ArgTokens), tr \in Trails}
    \cup {TagLine(OPT_TAG, nm, ts, tr) :
        nm \in Names, ts \in TokenSeqs(OptTokens), tr \in Trails}
    \cup {TagLine(kw, nm, ts, tr) :
        kw \in {NAME_TAG, SUB_TAG}, nm \in Names,
        ts \in TokenSeqs(IdTokens), tr \in Trails}
    \cup {AboutLine(sep, ts, tr) :
        sep \in Seps \cup {<<>>}, ts \in TokenSeqs(AboutTokens), tr \in Trails}

(* ------------------------------------------------------------------ *)
(* State                                                              *)
(* ------------------------------------------------------------------ *)
VARIABLES
    path,          \* the file name of the path given to build_script_command
    readable,      \* whether read_to_string succeeds on the path
    content,       \* the text of the file
    file_content,  \* builder.rs:350, the buffer that is scanned
    input,         \* ParserIterator.input, the position of the remaining input
    state,         \* ParserIterator.state: Running, Done or Incomplete
    groups,        \* the accumulator of the fold of collect
    tags,          \* history: the tags the iterator has yielded so far
    span,          \* history: the last Ok call of comment_or_not: the input
                   \* positions before and after it, and whether it gave a tag
    pc,            \* read, scan, done or panic; idle between two files
    res,           \* the value build_script_command returns
    entries,       \* the entries read_dir yields for the directory of a model
    next_entry,    \* the position of Model::from in the entries
    commands,      \* the commands Model::from has collected so far
    cli,           \* main.rs:42, the clap command model.to_cli() gives
    matches,       \* main.rs:55, the result of try_get_matches_from_mut
    out            \* main.rs:54, the lines build_embedded_script returns

\* the state of Model::from
dirvars == <<entries, next_entry, commands>>

\* the state of main after the model is built
mainvars == <<cli, matches, out>>

vars == <<path, readable, content, file_content, input, state, groups,
          tags, span, pc, res, entries, next_entry, commands,
          cli, matches, out>>

NoResult == [ok |-> FALSE, e |-> "none yet"]

\* build_script_command is called on one path, outside of a model
NoDirectory ==
    /\ entries = <<>>
    /\ next_entry = 1
    /\ commands = <<>>

NoCli == [name |-> <<>>, about |-> <<>>, args |-> <<>>, subcommands |-> <<>>,
          subcommand_required |-> FALSE]
NoMatches == [ok |-> FALSE, chain |-> <<>>]

\* main has not got to the command line yet
NoMain ==
    /\ cli = NoCli
    /\ matches = NoMatches
    /\ out = <<>>

Init ==
    /\ NoDirectory
    /\ NoMain
    /\ path \in FileNames
    /\ \/ /\ readable = TRUE
          /\ \E n \in 0..MaxLines : \E ls \in [1..n -> Lines] :
                content = Join(ls, n)
       \/ /\ readable = FALSE
          /\ content = <<>>
    /\ file_content = <<>>
    /\ input = 1
    /\ state = "Running"
    /\ groups = << <<>> >>
    /\ tags = <<>>
    /\ span = [from |-> 1, to |-> 1, tag |-> FALSE]
    /\ pc = "read"
    /\ res = NoResult

\* builder.rs:350-356: the file is read and a line feed is pushed unless the
\* content ends with one; collect then starts with the one empty group
ReadFile ==
    /\ pc = "read"
    /\ readable
    /\ file_content' = EnsureNewline(content)
    /\ pc' = "scan"
    /\ UNCHANGED <<path, readable, content, input, state, groups, tags, span, res>>
    /\ UNCHANGED dirvars
    /\ UNCHANGED mainvars

\* builder.rs:350: read_to_string(..).unwrap() on a read error panics
ReadFails ==
    /\ pc = "read"
    /\ ~readable
    /\ pc' = "panic"
    /\ UNCHANGED <<path, readable, content, file_content, input, state,
                   groups, tags, span, res>>
    /\ UNCHANGED dirvars
    /\ UNCHANGED mainvars

\* builder.rs:329-337 with ParserIterator::next, for the result r of
\* comment_or_not on the remaining input.  Ok(Some(tag)) is folded into
\* the groups, Ok(None) is filtered out, Error and Incomplete end the
\* iteration.
IterResult(r) ==
    IF IsOk(r)
    THEN /\ input' = r.p
         /\ span' = [from |-> input, to |-> r.p, tag |-> r.o.some]
         /\ state' = state
         /\ IF r.o.some
            THEN /\ groups' = FoldTag(groups, r.o.v)
                 /\ tags' = Append(tags, r.o.v)
            ELSE UNCHANGED <<groups, tags>>
    ELSE /\ state' = (IF r.k = "error" THEN "Done" ELSE "Incomplete")
         /\ UNCHANGED <<input, span, groups, tags>>

\* one step of the iteration of collect
IterNext ==
    /\ pc = "scan"
    /\ state = "Running"
    /\ IterResult(comment_or_not(file_content, input))
    /\ UNCHANGED <<path, readable, content, file_content, pc, res>>
    /\ UNCHANGED dirvars
    /\ UNCHANGED mainvars

\* builder.rs:339 and 358-453: the iteration has ended; the groups are
\* assembled into the value returned
Build ==
    /\ pc = "scan"
    /\ state # "Running"
    /\ LET collected == finish_with_val(state, groups)
       IN  res' = IF collected.ok THEN Assemble(collected.v, path) ELSE collected
    /\ pc' = "done"
    /\ UNCHANGED <<path, readable, content, file_content, input, state,
                   groups, tags, span>>
    /\ UNCHANGED dirvars
    /\ UNCHANGED mainvars

Next == ReadFile \/ ReadFails \/ IterNext \/ Build

Spec == Init /\ [][Next]_vars

\* build_script_command on a file of one tag line
LineInit ==
    /\ NoDirectory
    /\ NoMain
    /\ path \in FileNames
    /\ \/ /\ readable = TRUE
          /\ content \in LineContents
       \/ /\ readable = FALSE
          /\ content = <<>>
    /\ file_content = <<>>
    /\ input = 1
    /\ state = "Running"
    /\ groups = << <<>> >>
    /\ tags = <<>>
    /\ span = [from |-> 1, to |-> 1, tag |-> FALSE]
    /\ pc = "read"
    /\ res = NoResult

LineSpec == LineInit /\ [][Next]_vars

(* ------------------------------------------------------------------ *)
(* Model::from: the model of a directory                              *)
(* ------------------------------------------------------------------ *)
\* the line "# @ignore-at-root"
L_ignore_at_root ==
    <<"#", SP, "@">> \o IGNORE_TAG \o <<"-","a","t","-","r","o","o","t">>

\* the texts of the files of a directory
DirContents ==
    {<<>>, L_ignore, L_ignore_at_root, L_about, L_name \o <<LF>> \o L_vararg,
     L_sub \o <<LF>> \o L_about, L_ignore_at_root \o <<LF>> \o L_sub}

\* the entries of a directory: readable regular files, regular files that
\* cannot be read as text, and sub-directories
DirEntries ==
    {[name |-> n, kind |-> "file", readable |-> TRUE, content |-> c] :
        n \in FileNames, c \in DirContents}
    \cup {[name |-> n, kind |-> k, readable |-> FALSE, content |-> <<>>] :
        n \in FileNames, k \in {"file", "dir"}}

\* the largest number of entries of a directory
MaxEntries == 2

\* model.rs:37: read_dir has listed the directory; nothing is parsed yet
DirInit ==
    /\ \E n \in 0..MaxEntries : entries \in [1..n -> DirEntries]
    /\ next_entry = 1
    /\ commands = <<>>
    /\ NoMain
    /\ path = <<>>
    /\ readable = FALSE
    /\ content = <<>>
    /\ file_content = <<>>
    /\ input = 1
    /\ state = "Running"
    /\ groups = << <<>> >>
    /\ tags = <<>>
    /\ span = [from |-> 1, to |-> 1, tag |-> FALSE]
    /\ pc = "idle"
    /\ res = NoResult

\* model.rs:43-48: an entry that is not a regular file is filtered out
SkipEntry ==
    /\ pc = "idle"
    /\ next_entry <= Len(entries)
    /\ entries[next_entry].kind # "file"
    /\ next_entry' = next_entry + 1
    /\ UNCHANGED <<path, readable, content, file_content, input, state,
                   groups, tags, span, pc, res, entries, commands>>
    /\ UNCHANGED mainvars

\* model.rs:49-51: build_script_command is called on the path of a regular
\* file; all its locals are fresh
StartEntry ==
    /\ pc = "idle"
    /\ next_entry <= Len(entries)
    /\ entries[next_entry].kind = "file"
    /\ path' = entries[next_entry].name
    /\ readable' = entries[next_entry].readable
    /\ content' = entries[next_entry].content
    /\ file_content' = <<>>
    /\ input' = 1
    /\ state' = "Running"
    /\ groups' = << <<>> >>
    /\ tags' = <<>>
    /\ span' = [from |-> 1, to |-> 1, tag |-> FALSE]
    /\ res' = NoResult
    /\ pc' = "read"
    /\ UNCHANGED dirvars
    /\ UNCHANGED mainvars

\* model.rs:51-56: .ok().flatten() keeps the command of Ok(Some(command))
\* and drops Ok(None) and Err; filter_map moves on to the next entry
FinishEntry ==
    /\ pc = "done"
    /\ next_entry <= Len(entries)
    /\ commands' = IF res.ok /\ res.v.some THEN Append(commands, res.v.v)
                   ELSE commands
    /\ next_entry' = next_entry + 1
    /\ pc' = "idle"
    /\ UNCHANGED <<path, readable, content, file_content, input, state,
                   groups, tags, span, res, entries>>
    /\ UNCHANGED mainvars

DirNext ==
    \/ SkipEntry \/ StartEntry \/ FinishEntry
    \/ ReadFile \/ ReadFails \/ IterNext \/ Build

\* Model::from on a directory
DirSpec == DirInit /\ [][DirNext]_vars

(* ------------------------------------------------------------------ *)
(* main: the clap command and the embedded script                     *)
(* ------------------------------------------------------------------ *)
\* transform.rs:70-79 to_value_hint
to_value_hint(ty) ==
    CASE ty = "File" -> "FilePath"
      [] ty = "Dir" -> "DirPath"
      [] ty = "Path" -> "AnyPath"
      [] OTHER -> "Unknown"

\* transform.rs:82-102 to_arg of CommandArg: a positional clap Arg; the
\* parameter global is not used
CommandArg_to_arg(arg, global) ==
    [id |-> arg.name, positional |-> TRUE, global |-> FALSE,
     required |-> ~arg.optional, short |-> None, long |-> None,
     help |-> arg.description,
     num_args |-> IF arg.var_arg THEN "0.." ELSE "1",
     action |-> IF arg.var_arg THEN "Append" ELSE "Set",
     value_hint |-> to_value_hint(arg.arg_type)]

\* transform.rs:104-120 to_arg of CommandOption: a flag without parameter
\* has the action SetTrue, an option with parameter takes one value
CommandOption_to_arg(option, global) ==
    [id |-> option.name, positional |-> FALSE, global |-> global,
     required |-> FALSE, short |-> option.short, long |-> Some(option.name),
     help |-> Some(UnwrapOr(option.description, <<>>)),
     num_args |-> IF option.has_param THEN "1" ELSE "0",
     action |-> IF option.has_param THEN "Set" ELSE "SetTrue",
     value_hint |-> "Unknown"]

\* Command::has_sub_commands, called at transform.rs:39
has_sub_commands(command) == Len(command.sub_commands) > 0

\* the arguments with the positional ones before the options
CliArgumentsArgsFirst(command) ==
    [i \in 1..Len(command.args) |->
        CommandArg_to_arg(command.args[i], FALSE)]
    \o [i \in 1..Len(command.options) |->
        CommandOption_to_arg(command.options[i], has_sub_commands(command))]

\* transform.rs:39-50: the options first, global when the command has
\* sub-commands, chained with the arguments, never global
CliArguments(command) ==
    [i \in 1..Len(command.options) |->
        CommandOption_to_arg(command.options[i], has_sub_commands(command))]
    \o [i \in 1..Len(command.args) |->
        CommandArg_to_arg(command.args[i], FALSE)]

RUNS_THE == <<"R","u","n","s"," ","t","h","e"," ">>
SCRIPT_WORD == <<" ","s","c","r","i","p","t">>

RECURSIVE to_cli(_)
\* transform.rs:31-60 to_cli of a command
to_cli(command) ==
    [name |-> command.name,
     about |-> IF command.description.some THEN command.description.v
               ELSE RUNS_THE \o command.name \o SCRIPT_WORD,
     args |-> CliArguments(command),
     subcommands |-> [i \in 1..Len(command.sub_commands) |->
                         to_cli(command.sub_commands[i])],
     subcommand_required |-> FALSE]

EASY_CLI == <<"e","a","s","y","-","c","l","i">>

\* transform.rs:26-30 top_level
top_level ==
    [name |-> EASY_CLI, about |-> <<>>, args |-> <<>>, subcommands |-> <<>>,
     subcommand_required |-> TRUE]

\* transform.rs:17-23 to_cli of a Model
Model_to_cli(cmds) ==
    [top_level EXCEPT
        !.subcommands = [i \in 1..Len(cmds) |-> to_cli(cmds[i])]]

\* the values given on the command line
V_x == <<"x">>
V_y == <<"y">>

\* main.rs:55: what clap can match for the argument a of a command: a flag
\* is always present, with the value false when it is not given; an option
\* with parameter and an optional argument are present when given; a
\* variadic argument holds the values given
ArgMatchesOf(a) ==
    IF a.positional
    THEN IF a.num_args = "0.."
         THEN {None} \cup {Some([id |-> a.id, raw |-> vs, flag |-> FALSE]) :
                              vs \in {<<V_x>>, <<V_x, V_y>>}}
         ELSE (IF a.required THEN {} ELSE {None})
              \cup {Some([id |-> a.id, raw |-> <<V_x>>, flag |-> FALSE])}
    ELSE IF a.action = "SetTrue"
         THEN {Some([id |-> a.id, raw |-> <<>>, flag |-> b]) : b \in BOOLEAN}
         ELSE {None, Some([id |-> a.id, raw |-> <<V_x>>, flag |-> FALSE])}

RECURSIVE LevelMatches(_, _)
\* main.rs:55: the matched arguments of one command, for its first n
\* arguments, in the order of their definition
LevelMatches(args, n) ==
    IF n = 0 THEN {<<>>}
    ELSE {IF m.some THEN Append(ms, m.v) ELSE ms :
             ms \in LevelMatches(args, n - 1), m \in ArgMatchesOf(args[n])}

\* the matched arguments of ms that are global arguments of the command c
GlobalMatches(c, ms) ==
    LET IsGlobal(m) == \E i \in 1..Len(c.args) :
                          c.args[i].id = m.id /\ c.args[i].global
    IN  SelectSeq(ms, IsGlobal)

RECURSIVE MatchChains(_, _)
\* main.rs:55: the chains of matches clap can give below the command c: the
\* matches of c, with the global arguments matched above it, and then
\* those of at most one of its sub-commands
MatchChains(c, inherited) ==
    UNION {
        LET level == [name |-> c.name, ids |-> own \o inherited]
            globals == GlobalMatches(c, own) \o inherited
        IN  {<<level>>} \cup
            UNION {{<<level>> \o below :
                        below \in MatchChains(c.subcommands[i], globals)} :
                   i \in 1..Len(c.subcommands)}
        : own \in LevelMatches(c.args, Len(c.args))}

\* model.rs:65-69, 201-212 get_command: the first command of that name
get_command(cmds, name) ==
    LET I == {i \in 1..Len(cmds) : cmds[i].name = name}
    IN  IF I = {} THEN None
        ELSE Some(cmds[CHOOSE i \in I : \A j \in I : i <= j])

\* model.rs:162-164 get_option
get_option(command, name) ==
    LET I == {i \in 1..Len(command.options) : command.options[i].name = name}
    IN  IF I = {} THEN None
        ELSE Some(command.options[CHOOSE i \in I : \A j \in I : i <= j])

\* model.rs:166-168 get_arg
get_arg(command, name) ==
    LET I == {i \in 1..Len(command.args) : command.args[i].name = name}
    IN  IF I = {} THEN None
        ELSE Some(command.args[CHOOSE i \in I : \A j \in I : i <= j])

RECURSIVE JoinWith(_, _, _)
\* Vec<String>::join: the first n strings of ss with sep between them
JoinWith(ss, n, sep) ==
    IF n = 0 THEN <<>>
    ELSE IF n = 1 THEN ss[1]
    ELSE JoinWith(ss, n - 1, sep) \o sep \o ss[n]

\* main.rs:159-184: one id of the matches; an option with parameter ends
\* in todo!(), which panics
AddId(acc, m, command) ==
    LET option == get_option(command, m.id)
        a1 == IF ~option.some THEN acc
              ELSE IF option.v.has_param THEN [acc EXCEPT !.panic = TRUE]
              ELSE [acc EXCEPT !.opts = Append(@, <<m.id, m.flag>>)]
    IN  IF a1.panic \/ ~get_arg(command, m.id).some THEN a1
        ELSE [a1 EXCEPT !.args =
                 Append(@, <<m.id, JoinWith(m.raw, Len(m.raw), <<",">>)>>)]

RECURSIVE add_opts_and_args(_, _, _, _)
\* main.rs:153-185 add_opts_and_args, for the first n ids of the matches
add_opts_and_args(ids, n, command, acc) ==
    IF n = 0 THEN acc
    ELSE LET before == add_opts_and_args(ids, n - 1, command, acc)
         IN  IF before.panic THEN before ELSE AddId(before, ids[n], command)

RECURSIVE CollectChain(_, _, _, _)
\* main.rs:103-118: the loop over the chain of matches from level n on;
\* current is the command of level n
CollectChain(chain, n, current, acc) ==
    LET a1 == add_opts_and_args(chain[n].ids, Len(chain[n].ids), current,
                                [acc EXCEPT !.leaf = current])
    IN  IF a1.panic \/ n = Len(chain) THEN a1
        ELSE LET sub == get_command(current.sub_commands, chain[n + 1].name).v
             IN  CollectChain(chain, n + 1, sub,
                     [a1 EXCEPT !.path = IF sub.path.some THEN sub.path.v
                                         ELSE @])

EVAL_LINE == <<"#","e","v","a","l">>
TYPESET_ARGS == <<"t","y","p","e","s","e","t"," ","-","A"," ","c","l","i","_","a","r","g","s">>
TYPESET_OPTS == <<"t","y","p","e","s","e","t"," ","-","A"," ","c","l","i","_","o","p","t","s">>
CLI_ARGS_OPEN == <<"c","l","i","_","a","r","g","s","=","(">>
CLI_OPTS_OPEN == <<"c","l","i","_","o","p","t","s","=","(">>
SOURCE_OPEN == <<"s","o","u","r","c","e"," ","\"">>
QUOTE == <<"\"">>
TRUE_WORD == <<"t","r","u","e">>
FALSE_WORD == <<"f","a","l","s","e">>

\* main.rs:128: format!("\"{}\" \"{}\"", arg.0, arg.1)
FormatArg(arg) == QUOTE \o arg[1] \o QUOTE \o <<SP>> \o QUOTE \o arg[2] \o QUOTE

\* main.rs:138: format!("\"{}\" {}", opt.0, opt.1)
FormatOpt(o) ==
    QUOTE \o o[1] \o QUOTE \o <<SP>> \o
    (IF o[2] THEN TRUE_WORD ELSE FALSE_WORD)

\* main.rs:86-151 exec_commands_script: the lines written, or the panic
exec_commands_script(cmds, chain) ==
    LET command == get_command(cmds, chain[1].name).v
        got == CollectChain(chain, 1, command,
                   [opts |-> <<>>, args |-> <<>>, panic |-> FALSE,
                    path |-> command.path.v, leaf |-> command])
        args == [i \in 1..Len(got.args) |-> FormatArg(got.args[i])]
        opts == [i \in 1..Len(got.opts) |-> FormatOpt(got.opts[i])]
    IN  IF got.panic THEN [panic |-> TRUE, lines |-> <<>>]
        ELSE [panic |-> FALSE,
              lines |->
                <<EVAL_LINE,
                  TYPESET_ARGS,
                  CLI_ARGS_OPEN \o JoinWith(args, Len(args), <<SP>>) \o <<")">>,
                  TYPESET_OPTS,
                  CLI_OPTS_OPEN \o JoinWith(opts, Len(opts), <<SP>>) \o <<")">>,
                  SOURCE_OPEN \o got.path \o QUOTE>>
                \o (IF got.leaf.path.some THEN <<>> ELSE <<got.leaf.name>>)]

ECHO_ERROR == <<"e","c","h","o">>

\* main.rs:80-84 echo_error_script; the text clap renders is left out
echo_error_script == <<ECHO_ERROR>>

\* the options and the arguments of the commands of a model
O_flag == CommandOption(<<"o">>, None, FALSE, None)
O_param == CommandOption(<<"p">>, Some("q"), TRUE, Some(<<"r">>))
O_sub == CommandOption(<<"f">>, None, FALSE, None)
A_req == CommandArg(<<"b">>, FALSE, FALSE, "File", Some(<<"c">>))
A_var == CommandArg(<<"v">>, TRUE, TRUE, "Unknown", None)

OptionSeqs ==
    {<<>>, <<O_flag>>, <<O_param>>, <<O_flag, O_param>>, <<O_param, O_flag>>}
ArgSeqs == {<<>>, <<A_req>>, <<A_var>>, <<A_req, A_var>>}

\* the sub-commands: two embedded ones and a script of its own
SubPool ==
    {EmbeddedCommand(<<"s">>, None, <<O_sub>>, <<A_req>>),
     EmbeddedCommand(<<"u">>, Some(<<"d">>), <<>>, <<A_var>>),
     ScriptCommand(<<"t">>, None, <<"t",".","s","h">>, <<>>, <<A_req>>, <<>>)}

\* the largest number of sub-commands of a command
MaxSubs == 2

\* the sequences of up to MaxSubs sub-commands of different names
SubSeqs ==
    {ss \in UNION {[1..n -> SubPool] : n \in 0..MaxSubs} :
        \A i, j \in 1..Len(ss) : i # j => ss[i].name # ss[j].name}

\* the commands of the models: one script with options, arguments and
\* sub-commands
Roots ==
    {ScriptCommand(<<"a">>, None, <<"a",".","s","h">>, os, as, ss) :
        os \in OptionSeqs, as \in ArgSeqs, ss \in SubSeqs}

\* main.rs:40: a model has been built; nothing else has happened
CliInit ==
    /\ \E root \in Roots : commands = <<root>>
    /\ entries = <<>>
    /\ next_entry = 1
    /\ NoMain
    /\ path = <<>>
    /\ readable = FALSE
    /\ content = <<>>
    /\ file_content = <<>>
    /\ input = 1
    /\ state = "Running"
    /\ groups = << <<>> >>
    /\ tags = <<>>
    /\ span = [from |-> 1, to |-> 1, tag |-> FALSE]
    /\ pc = "model"
    /\ res = NoResult

parservars == <<path, readable, content, file_content, input, state, groups,
                tags, span, res>>

\* main.rs:42: let cli = model.to_cli()
ToCli ==
    /\ pc = "model"
    /\ cli' = Model_to_cli(commands)
    /\ pc' = "cli"
    /\ UNCHANGED <<matches, out>>
    /\ UNCHANGED dirvars
    /\ UNCHANGED parservars

\* main.rs:55: try_get_matches_from_mut gives the matches of a chain of
\* commands; the top level requires a sub-command
GetMatches ==
    /\ pc = "cli"
    /\ \E i \in 1..Len(cli.subcommands) :
          \E chain \in MatchChains(cli.subcommands[i], <<>>) :
              matches' = [ok |-> TRUE, chain |-> chain]
    /\ pc' = "matched"
    /\ UNCHANGED <<cli, out>>
    /\ UNCHANGED dirvars
    /\ UNCHANGED parservars

\* main.rs:55: try_get_matches_from_mut gives an error: the command line
\* does not match, or it asks for help or the version
GetMatchesFails ==
    /\ pc = "cli"
    /\ matches' = NoMatches
    /\ pc' = "error"
    /\ UNCHANGED <<cli, out>>
    /\ UNCHANGED dirvars
    /\ UNCHANGED parservars

\* main.rs:56-60: the error is rendered as an echo command
EchoErrorScript ==
    /\ pc = "error"
    /\ out' = echo_error_script
    /\ pc' = "written"
    /\ UNCHANGED <<cli, matches>>
    /\ UNCHANGED dirvars
    /\ UNCHANGED parservars

\* main.rs:61-64: exec_commands_script writes the script, or panics
ExecCommandsScript ==
    /\ pc = "matched"
    /\ LET r == exec_commands_script(commands, matches.chain)
       IN  /\ out' = r.lines
           /\ pc' = IF r.panic THEN "panic" ELSE "written"
    /\ UNCHANGED <<cli, matches>>
    /\ UNCHANGED dirvars
    /\ UNCHANGED parservars

CliNext ==
    ToCli \/ GetMatches \/ GetMatchesFails \/ EchoErrorScript
    \/ ExecCommandsScript

\* main in evaluated mode, from the model on
CliSpec == CliInit /\ [][CliNext]_vars

(* ------------------------------------------------------------------ *)
(* Properties                                                         *)
(* ------------------------------------------------------------------ *)
Done == pc = "done"

\* build_script_command has returned Ok(Some(command))
Produced == Done /\ res.ok /\ res.v.some

\* the positions of the tags of kind k in the tag sequence g
TagsAt(g, k) == {i \in 1..Len(g) : g[i].t = k}

\* the largest element of a non-empty set of numbers
MaxOf(S) == CHOOSE i \in S : \A j \in S : j <= i

IsArg(tag) == tag.t = "Arg"
IsOpt(tag) == tag.t = "Opt"
IsSub(tag) == tag.t = "Sub"

\* the payloads of the Arg tags of g, in the order of g
ArgsIn(g) ==
    LET a == SelectSeq(g, IsArg) IN [i \in 1..Len(a) |-> a[i].arg]

\* the payloads of the Opt tags of g, in the order of g
OptsIn(g) ==
    LET o == SelectSeq(g, IsOpt) IN [i \in 1..Len(o) |-> o[i].opt]

\* the text of the last About tag of g, if any
LastAbout(g) ==
    IF TagsAt(g, "About") = {} THEN None
    ELSE Some(g[MaxOf(TagsAt(g, "About"))].text)

\* the name of the last Name tag of g, if any
LastName(g) ==
    IF TagsAt(g, "Name") = {} THEN None
    ELSE Some(g[MaxOf(TagsAt(g, "Name"))].name)

RECURSIVE Concat(_, _)
\* the concatenation of the first n sequences of ss
Concat(ss, n) == IF n = 0 THEN <<>> ELSE Concat(ss, n - 1) \o ss[n]

\* C1: a file whose scan yields no tag gives a command with the default
\* name, no description, no options, no sub-commands and the one argument
\* "args": optional, variadic, of type Unknown, with the fixed description.
C1_UntaggedScript ==
    (Done /\ tags = <<>>) =>
        res = [ok |-> TRUE,
               v |-> Some([name |-> default_name(path),
                           description |-> None,
                           path |-> Some(path),
                           options |-> <<>>,
                           args |-> <<[name |-> <<"a","r","g","s">>,
                                       optional |-> TRUE,
                                       var_arg |-> TRUE,
                                       arg_type |-> "Unknown",
                                       description |-> Some(
                                           
                                           <<"A","n","y"," ","a","r","g","u","m","e","n","t","s"," ","a","r","e"," ">> \o
                                           <<"p","a","s","s","e","d"," ","t","o"," ","t","h","e"," ","s","c","r","i","p","t">>)]>>,
                           sub_commands |-> <<>>])]

\* a file that is not empty has been scanned without yielding a tag
C1_Witness ==
    /\ Done
    /\ tags = <<>>
    /\ Len(content) > 8
    /\ res.ok /\ res.v.some
    /\ Len(res.v.v.args) = 1

\* C2: when the first tag of the stream is Ignore, the result is Ok(None),
\* whatever tags follow.
C2_IgnoreFirst ==
    (Done /\ Len(tags) > 0 /\ tags[1] = IgnoreTag) =>
        res = [ok |-> TRUE, v |-> None]

\* Ignore was followed by another tag of group 0 and by a Sub group
C2_Witness ==
    /\ Done
    /\ Len(tags) = 3
    /\ tags[1] = IgnoreTag
    /\ tags[2].t \in {"Name", "About", "Arg", "Opt"}
    /\ tags[3].t = "Sub"
    /\ res = [ok |-> TRUE, v |-> None]

\* C3: when the iteration of collect has ended, the number of groups is
\* 1 + the number of Sub tags of the stream (one group without Sub tags).
C3_GroupCount ==
    (pc = "scan" /\ state # "Running") =>
        Len(groups) = 1 + Cardinality(TagsAt(tags, "Sub"))

\* collect has ended with three groups
C3_Witness ==
    /\ pc = "scan"
    /\ state # "Running"
    /\ Cardinality(TagsAt(tags, "Sub")) = 2
    /\ Len(groups) = 3

\* C4: in every state of the fold, group 0 holds no Sub tag, every later
\* group starts with a Sub tag and holds no other, and the groups
\* concatenated are the tags consumed so far.
C4_Grouping ==
    /\ Len(groups) >= 1
    /\ TagsAt(groups[1], "Sub") = {}
    /\ \A g \in 2..Len(groups) : TagsAt(groups[g], "Sub") = {1}
    /\ Concat(groups, Len(groups)) = tags

\* the fold is under way with one tag in group 0 and a Sub group of two tags
C4_Witness ==
    /\ pc = "scan"
    /\ state = "Running"
    /\ Len(groups) = 2
    /\ Len(groups[1]) = 1
    /\ Len(groups[2]) = 2

C6_LastAboutLastName ==
    Produced =>
        /\ res.v.v.description = LastAbout(groups[1])
        /\ res.v.v.name = UnwrapOr(LastName(groups[1]), default_name(path))

\* two Name tags with different names and an About tag in group 0
C6_Witness ==
    /\ Produced
    /\ Cardinality(TagsAt(groups[1], "Name")) = 2
    /\ Cardinality(TagsAt(groups[1], "About")) = 1
    /\ \E i, j \in TagsAt(groups[1], "Name") :
          i < j /\ groups[1][i].name # groups[1][j].name

\* C7: a command produced from a stream with tags has one sub-command per
\* Sub tag, in source order, named by its Sub tag, described by the last
\* About tag of its group, and without sub-commands of its own.
C7_SubCommands ==
    (Produced /\ tags # <<>>) =>
        LET subs == SelectSeq(tags, IsSub)
            cmds == res.v.v.sub_commands
        IN  /\ Len(cmds) = Len(subs)
            /\ \A i \in 1..Len(cmds) :
                  /\ cmds[i].name = subs[i].name
                  /\ cmds[i].description = LastAbout(groups[i + 1])
                  /\ cmds[i].sub_commands = <<>>

\* two Sub tags of the same name, the first with an About tag, gave two
\* sub-commands
C7_Witness ==
    /\ Produced
    /\ Len(tags) = 3
    /\ tags[1].t = "Sub"
    /\ tags[2].t = "About"
    /\ tags[3] = tags[1]
    /\ Len(res.v.v.sub_commands) = 2
    /\ res.v.v.sub_commands[1].description = Some(tags[2].text)

RECURSIVE SplitLines(_, _)
\* the lines of the text t from position p on: the runs between line feeds
SplitLines(t, p) ==
    IF FindIn(t, p, {LF}) = 0 THEN <<From(t, p)>>
    ELSE <<Slice(t, p, FindIn(t, p, {LF}))>> \o
         SplitLines(t, FindIn(t, p, {LF}) + 1)

\* the lines of the file
ContentLines == SplitLines(content, 1)

\* the lines ls without line k, as a text
WithoutLine(ls, k) ==
    LET rem == [i \in 1..(Len(ls) - 1) |-> IF i < k THEN ls[i] ELSE ls[i + 1]]
    IN  Join(rem, Len(rem))

\* the position of the first character of l at or after p that is no
\* whitespace; 0 if there is none
NonSpace(l, p) == FindNotIn(l, p, MultiSpaceChars)

\* the line is a comment whose first character after '#' and whitespace is
\* '@'; the position of that '@', or 0
AtSign(l) ==
    IF NonSpace(l, 1) = 0 \/ l[NonSpace(l, 1)] # "#" THEN 0
    ELSE IF NonSpace(l, NonSpace(l, 1) + 1) = 0 THEN 0
    ELSE IF l[NonSpace(l, NonSpace(l, 1) + 1)] # "@" THEN 0
    ELSE NonSpace(l, NonSpace(l, 1) + 1)

\* the keyword of an annotation line: the characters after '@' up to the
\* first whitespace or hyphen, or to the end of the line
KeywordOf(l) ==
    IF FindIn(l, AtSign(l) + 1, IdentifierStop) = 0
    THEN From(l, AtSign(l) + 1)
    ELSE Slice(l, AtSign(l) + 1, FindIn(l, AtSign(l) + 1, IdentifierStop))

Keywords ==
    {IGNORE_TAG, NAME_TAG, SUB_TAG, ABOUT_TAG, ARG_TAG, VAR_ARG_TAG, OPT_TAG}

\* a line that matches the annotation grammar: scanned as a file of its
\* own it yields its tag
IsTagLine(l) == AtSign(l) # 0 /\ Len(TagsOf(l)) = 1

\* a blank line, a code line, a bare '#' or a comment without '@'
IsPlainLine(l) == AtSign(l) = 0

\* a comment line "# @<keyword> ..." whose keyword is not of the fixed set
IsUnknownKeywordLine(l) ==
    AtSign(l) # 0 /\ KeywordOf(l) # <<>> /\ KeywordOf(l) \notin Keywords

RECURSIVE LineTags(_, _)
\* the tags of the first n lines of ls, each line scanned as a file of its own
LineTags(ls, n) ==
    IF n = 0 THEN <<>> ELSE LineTags(ls, n - 1) \o TagsOf(ls[n])

\* C8: in a file made of lines that match the annotation grammar and of
\* blank lines, code lines, bare '#' lines and comments without '@', every
\* line that matches the grammar contributes its one tag, in line order.
C8_EveryTagLineYieldsItsTag ==
    (/\ Done
     /\ \A k \in 1..Len(ContentLines) :
           IsTagLine(ContentLines[k]) \/ IsPlainLine(ContentLines[k]))
    => tags = LineTags(ContentLines, Len(ContentLines))

\* C9: a tag is made of characters of one line: from the first character
\* the call that yields it reads after the whitespace it skips (the '#')
\* to the position it leaves the input at, there is no line feed.
C9_OneLinePerTag ==
    (pc = "scan" /\ span.tag) =>
        \A i \in NonSpace(file_content, span.from)..(span.to - 1) :
            file_content[i] # LF

\* C10: a comment line with an unknown keyword gives no tag and no error
\* and leaves the tags of the other lines as they are: the file has the
\* tag stream of the file without that line.
C10_UnknownKeywordLineIsInert ==
    Done =>
        \A k \in 1..Len(ContentLines) :
            IsUnknownKeywordLine(ContentLines[k]) =>
                /\ res.ok
                /\ tags = TagsOf(WithoutLine(ContentLines, k))

\* the position after the keyword of an annotation line
AfterKeyword(l) == AtSign(l) + 1 + Len(KeywordOf(l))

\* the keywords whose parser requires an identifier
IdentifierKeywords == {NAME_TAG, SUB_TAG, ARG_TAG, VAR_ARG_TAG, OPT_TAG}

\* a malformed tag line: '@' without keyword, or a keyword that requires an
\* identifier followed by nothing, by whitespace only, or by a token that
\* starts with '-'
IsMalformedLine(l) ==
    /\ AtSign(l) # 0
    /\ \/ KeywordOf(l) = <<>>
       \/ /\ KeywordOf(l) \in IdentifierKeywords
          /\ \/ NonSpace(l, AfterKeyword(l)) = 0
             \/ l[NonSpace(l, AfterKeyword(l))] = "-"

\* C11: in a file made of well-formed tag lines and of malformed tag
\* lines, a malformed line yields no tag and every well-formed line yields
\* its tag: the tag stream is that of the well-formed lines, in line order.
C11_MalformedLineSkipped ==
    (/\ Done
     /\ \A k \in 1..Len(ContentLines) :
           IsTagLine(ContentLines[k]) \/ IsMalformedLine(ContentLines[k]))
    => tags = LineTags(SelectSeq(ContentLines, IsTagLine),
                       Len(SelectSeq(ContentLines, IsTagLine)))

\* the text t does not end with a line feed
Unterminated(t) == Len(t) = 0 \/ t[Len(t)] # LF

\* C12: for a text that does not end with a line break the result is the
\* result for the text followed by a line break; when every line of the
\* file is a well-formed tag line, the tag of the final, unterminated line
\* is the last tag of the stream.
C12_TrailingNewline ==
    (Done /\ Unterminated(content)) =>
        /\ tags = TagsOf(Append(content, LF))
        /\ res = BuildResult(Append(content, LF), path)
        /\ (\A k \in 1..Len(ContentLines) : IsTagLine(ContentLines[k])) =>
              /\ tags # <<>>
              /\ <<tags[Len(tags)]>> = TagsOf(ContentLines[Len(ContentLines)])

\* a file of two lines whose unterminated last line is a tag line: its tag
\* is in the stream and in the command
C12_Witness ==
    /\ Produced
    /\ Unterminated(content)
    /\ Len(ContentLines) = 2
    /\ IsTagLine(ContentLines[2])
    /\ Len(tags) = 2
    /\ tags[2].t = "About"
    /\ res.v.v.description = Some(tags[2].text)

\* the boolean sub-field: absent, or a literal, with the value it stands for
BoolFields ==
    {[toks |-> <<>>, val |-> FALSE],
     [toks |-> <<T_true>>, val |-> TRUE],
     [toks |-> <<T_False>>, val |-> FALSE]}

\* the type sub-field: absent, or a token in angle brackets, with its type
TypeFields ==
    {[toks |-> <<>>, val |-> "Unknown"],
     [toks |-> <<T_file>>, val |-> "File"],
     [toks |-> <<T_DIR>>, val |-> "Dir"],
     [toks |-> <<T_Path>>, val |-> "Path"],
     [toks |-> <<T_int>>, val |-> "Unknown"]}

\* the description sub-field: absent, or a text made of tokens of pool
TextFields(pool) ==
    {[toks |-> ts,
      val |-> IF Len(ts) = 0 THEN None ELSE Some(JoinTokens(ts, Len(ts)))] :
        ts \in TokenSeqs(pool)}

\* the arg and vararg lines NAME [BOOL] [<TYPE>] [TEXT] with TEXT of the
\* set texts yield the one Arg tag with these fields
ArgFieldsHold(texts) ==
    Done => \A kw \in {ARG_TAG, VAR_ARG_TAG}, nm \in PlainNames,
               b \in BoolFields, ty \in TypeFields, tx \in texts :
        content = TagLine(kw, nm, b.toks \o ty.toks \o tx.toks, <<>>) =>
            tags = <<ArgDocTag(CommandArg(nm, b.val, kw = VAR_ARG_TAG,
                                          ty.val, tx.val))>>

\* C13: an arg line NAME [BOOL] [<TYPE>] [TEXT] yields Arg{NAME, BOOL or
\* false, not variadic, the type of TYPE or Unknown, TEXT or None}, a
\* vararg line the same tag with variadic = true; TEXT is any text that
\* does not start with a boolean literal or with a bracketed type token.
C13_ArgFields == ArgFieldsHold(TextFields({T_open, T_c}))

\* the short flag sub-field: absent, or a character in single quotes
ShortFields ==
    {[toks |-> <<>>, val |-> None],
     [toks |-> <<T_q>>, val |-> Some("q")]}

\* the file is the one line "# @<kw> ..."
IsLineOf(kw) ==
    /\ Len(content) >= 3 + Len(kw)
    /\ SubSeq(content, 4, 3 + Len(kw)) = kw
    /\ FindIn(content, 1, {LF}) = 0

\* the opt lines NAME ['c'] [BOOL] [TEXT], with a TEXT whose first token is
\* of the set first, or is a quoted character after a boolean literal,
\* yield the one Opt tag with these fields
OptFieldsHold(first) ==
    (Done /\ IsLineOf(OPT_TAG)) =>
        \A nm \in PlainNames, sh \in ShortFields, b \in BoolFields,
           tx \in TextFields(OptTokens) :
            (/\ \/ Len(tx.toks) = 0
                \/ tx.toks[1] \in first
                \/ tx.toks[1] = T_q /\ Len(b.toks) > 0
             /\ content = TagLine(OPT_TAG, nm, sh.toks \o b.toks \o tx.toks, <<>>))
            => tags = <<OptDocTag(CommandOption(nm, sh.val, b.val, tx.val))>>

\* C14: an opt line NAME ['c'] [BOOL] [TEXT] yields Opt{NAME, c or None,
\* BOOL or false, TEXT or None}; a field out of this order belongs to the
\* text.  TEXT starts with any word that is no boolean literal and no
\* quoted character.
C14_OptFields == OptFieldsHold({T_c, T_e, T_truex})

\* C15: an Opt tag has a short flag only when the token after the option
\* name is one character in single quotes, that character being the flag;
\* a text that starts with the single letter e and a space yields no short
\* flag and the whole text as description.
C15_ShortOnlyQuoted ==
    (Done /\ IsLineOf(OPT_TAG)) =>
        \A nm \in Names, ts \in TokenSeqs(OptTokens), tr \in Trails :
            content = TagLine(OPT_TAG, nm, ts, tr) =>
                /\ \A i \in 1..Len(tags) :
                      (tags[i].t = "Opt" /\ tags[i].opt.short.some) =>
                          /\ Len(ts) > 0
                          /\ ts[1] = <<"'", tags[i].opt.short.v, "'">>
                /\ (nm \in PlainNames /\ Len(ts) > 1 /\ ts[1] = T_e /\ tr = <<>>) =>
                      tags = <<OptDocTag(CommandOption(
                                 nm, None, FALSE, Some(JoinTokens(ts, Len(ts)))))>>

\* on the lines "# @<kw> <name> ..." with a name of the set names, a name
\* line yields Name{name}, a sub line Sub{name, None}, whatever follows the
\* name, and every Arg or Opt tag of an arg, vararg or opt line has that name
IdentifierIsToken(names) ==
    Done => \A nm \in names, tr \in Trails :
        /\ \A ts \in TokenSeqs(IdTokens) :
              /\ content = TagLine(NAME_TAG, nm, ts, tr) => tags = <<NameTag(nm)>>
              /\ content = TagLine(SUB_TAG, nm, ts, tr) => tags = <<SubTag(nm, None)>>
        /\ \A kw \in {ARG_TAG, VAR_ARG_TAG, OPT_TAG} :
              (/\ IsLineOf(kw)
               /\ Len(content) >= 4 + Len(kw) + Len(nm)
               /\ SubSeq(content, 1, 4 + Len(kw) + Len(nm)) = TagLine(kw, nm, <<>>, <<>>)
               /\ Len(content) > 4 + Len(kw) + Len(nm) =>
                      content[5 + Len(kw) + Len(nm)] = SP)
              => \A i \in 1..Len(tags) :
                    /\ tags[i].t = "Arg" => tags[i].arg.name = nm
                    /\ tags[i].t = "Opt" => tags[i].opt.name = nm

\* C16: the identifier of a name or sub line, and the name of an arg,
\* vararg or opt line, is the first whitespace-delimited token after the
\* keyword; the rest of a name or sub line is ignored and the path of a Sub
\* tag is None.
C16_IdentifierIsToken == IdentifierIsToken(Names)

\* the text r without its leading spaces and tabs
TrimStart(r) ==
    IF FindNotIn(r, 1, SpaceChars) = 0 THEN <<>>
    ELSE From(r, FindNotIn(r, 1, SpaceChars))

\* C17: an about line yields the About tag whose text is the remainder of
\* the line after the keyword without its leading spaces and tabs, the
\* rest verbatim; with nothing after the keyword the text is empty.
C17_AboutText ==
    Done => \A sep \in Seps \cup {<<>>}, ts \in TokenSeqs(AboutTokens),
               tr \in Trails :
        (/\ Len(sep) > 0 \/ Len(ts) = 0
         /\ content = AboutLine(sep, ts, tr))
        => tags = <<AboutTag(TrimStart(sep \o JoinTokens(ts, Len(ts)) \o tr))>>

\* an about line with a space and a tab before its text and a space after
\* it has given the text with the space at its end
C17_Witness ==
    /\ Done
    /\ content = AboutLine(<<SP, TAB>>, <<T_c, T_e>>, <<SP>>)
    /\ tags = <<AboutTag(<<"c", SP, "e", SP>>)>>
    /\ res.ok /\ res.v.some
    /\ res.v.v.description = Some(<<"c", SP, "e", SP>>)

\* a description is None, or a text that is not empty and neither starts
\* nor ends with whitespace
IsTrimmed(d) ==
    \/ ~d.some
    \/ /\ Len(d.v) > 0
       /\ d.v[1] \notin MultiSpaceChars
       /\ d.v[Len(d.v)] \notin MultiSpaceChars

\* C18: the description of every Arg and Opt tag is None or a non-empty
\* text without leading and trailing whitespace (stated for the files
\* without a hyphen, whose names are whole tokens).
C18_DescriptionTrimmed ==
    (Done /\ FindIn(content, 1, {"-"}) = 0) => \A i \in 1..Len(tags) :
        /\ tags[i].t = "Arg" => IsTrimmed(tags[i].arg.description)
        /\ tags[i].t = "Opt" => IsTrimmed(tags[i].opt.description)

\* on the arg, vararg and opt lines whose token after the name is a
\* boolean literal the flag of the tag is the value of the literal; on
\* those whose token after the name is of the set others the flag is false
\* and the description is the whole text from that token on
BoolIsWholeToken(others) ==
    Done => \A nm \in PlainNames :
        /\ \A kw \in {ARG_TAG, VAR_ARG_TAG}, ts \in TokenSeqs(ArgTokens) :
              (Len(ts) > 0 /\ content = TagLine(kw, nm, ts, <<>>)) =>
                  /\ ts[1] \in {T_true, T_False} =>
                        \A i \in 1..Len(tags) :
                            tags[i].arg.optional = (ts[1] = T_true)
                  /\ ts[1] \in others =>
                        tags = <<ArgDocTag(CommandArg(
                                   nm, FALSE, kw = VAR_ARG_TAG, "Unknown",
                                   Some(JoinTokens(ts, Len(ts)))))>>
        /\ \A ts \in TokenSeqs(OptTokens) :
              (Len(ts) > 0 /\ content = TagLine(OPT_TAG, nm, ts, <<>>)) =>
                  /\ ts[1] \in {T_true, T_False} =>
                        \A i \in 1..Len(tags) :
                            tags[i].opt.has_param = (ts[1] = T_true)
                  /\ ts[1] \in others =>
                        tags = <<OptDocTag(CommandOption(
                                   nm, None, FALSE,
                                   Some(JoinTokens(ts, Len(ts)))))>>

\* C19: the boolean sub-field of an arg, vararg or opt line is read only
\* from a token that is, as a whole, true or false in any letter case; any
\* other token at its place leaves the flag false and stays, uncut, at the
\* start of the description.
C19_BoolWholeToken == BoolIsWholeToken({T_truex, T_c})

\* C20: ArgType::from maps path, file and dir in any letter case to Path,
\* File and Dir and every other token to Unknown, and the <token> field of
\* an arg or vararg line gets its type through this mapping.
C20_ArgTypeFrom ==
    Done => \A kw \in {ARG_TAG, VAR_ARG_TAG}, nm \in PlainNames,
               b \in BoolFields, ty \in TypeFields, tx \in TextFields({T_c}) :
        (/\ Len(ty.toks) > 0
         /\ content = TagLine(kw, nm, b.toks \o ty.toks \o tx.toks, <<>>))
        => /\ ArgTypeFrom(Slice(ty.toks[1], 2, Len(ty.toks[1]))) = ty.val
           /\ Len(tags) = 1
           /\ tags[1].t = "Arg"
           /\ tags[1].arg.arg_type = ty.val

\* the arg line with the type token <DIR> has given an argument of type Dir
C20_Witness ==
    /\ Produced
    /\ content = TagLine(ARG_TAG, <<"b">>, <<T_true, T_DIR, T_c>>, <<>>)
    /\ Len(tags) = 1
    /\ tags[1].arg.arg_type = "Dir"
    /\ res.v.v.args[1].arg_type = "Dir"

\* C21: when the file cannot be read, build_script_command does not abort
\* the process: once the read has been attempted it has returned, and the
\* value returned is an Err.
C21_ReadErrorReturned ==
    (~readable /\ pc # "read") =>
        /\ pc # "panic"
        /\ pc = "done"
        /\ ~res.ok

\* a step of the scan either moves the input forward, staying within the
\* buffer, or leaves it where it is and ends the iteration
ScanProgress ==
    (pc = "scan" /\ pc' = "scan") =>
        \/ /\ input < input'
           /\ input' <= Len(file_content) + 1
           /\ state' = "Running"
        \/ /\ input' = input
           /\ state = "Running"
           /\ state' # "Running"

\* the guards of ReadFile, IterNext and Build: one of them can be taken
CanStep ==
    \/ pc = "read" /\ readable
    \/ /\ pc = "scan"
       /\ state = "Running"
       /\ comment_or_not(file_content, input).k \in {"ok", "error", "incomplete"}
    \/ pc = "scan" /\ state \in {"Done", "Incomplete"}

\* C22: for a file that can be read, every step of the scan consumes at
\* least one character of the finite buffer or ends the scan, a step can
\* be taken until build_script_command has returned, and the value
\* returned is Ok: no command or a command description.
C22_Terminates ==
    /\ [][ScanProgress]_vars
    /\ []((readable /\ ~Done) => CanStep)
    /\ [](Done => res.ok)

\* a file of three lines whose scan was ended by a malformed line, the
\* tags before it kept, has given a command
C22_Witness ==
    /\ Produced
    /\ state = "Done"
    /\ Len(ContentLines) = 3
    /\ input < Len(file_content)
    /\ Len(tags) = 1

\* C23: every group after the first that collect hands to the assembly
\* begins with a Sub tag, and build_script_command never returns the error
\* "No sub tag found".
C23_NoSubTagErrorUnreachable ==
    /\ (pc = "scan" /\ state # "Running") =>
          \A g \in 2..Len(groups) :
              Len(groups[g]) > 0 /\ groups[g][1].t = "Sub"
    /\ Done => res # [ok |-> FALSE, e |-> "No sub tag found"]

\* a sub-command group of two tags after a group 0 with a Name tag has
\* been assembled into a sub-command
C23_Witness ==
    /\ Produced
    /\ Len(groups) = 2
    /\ TagsAt(groups[1], "Name") # {}
    /\ Len(groups[2]) = 2
    /\ groups[2][1].t = "Sub"
    /\ Len(res.v.v.sub_commands) = 1

\* Model::from has gone through all the entries of the directory
ModelBuilt == pc = "idle" /\ next_entry > Len(entries)

\* the entry e is a regular file whose parse yields a command
YieldsCommand(e) ==
    /\ e.kind = "file"
    /\ e.readable
    /\ BuildResult(e.content, e.name).ok
    /\ BuildResult(e.content, e.name).v.some

RECURSIVE CommandsOf(_, _)
\* one command for each of the first n entries of es that yields one, each
\* computed from the name and the text of its own file only
CommandsOf(es, n) ==
    IF n = 0 THEN <<>>
    ELSE IF YieldsCommand(es[n])
         THEN Append(CommandsOf(es, n - 1),
                     BuildResult(es[n].content, es[n].name).v.v)
         ELSE CommandsOf(es, n - 1)

\* C24: Model::from(directory) holds exactly one command for each regular
\* file whose parse yields a command, computed from that file alone, and
\* none for sub-directories and excluded files; a file that cannot be
\* modeled does not abort the processing of the other files.
C24_ModelOfDirectory ==
    /\ pc # "panic"
    /\ ModelBuilt => commands = CommandsOf(entries, Len(entries))

\* the positions of the character '.' in the file name n
Dots(n) == {i \in 1..Len(n) : n[i] = "."}

\* the file name n without its last '.' and what follows it; a name
\* without '.' is left as it is
WithoutSuffix(n) ==
    IF Dots(n) = {} THEN n ELSE Slice(n, 1, MaxOf(Dots(n)))

\* C25: the default name of a file is its file name with the last '.' and
\* everything after it removed and nothing else removed; a file name
\* without '.' is its own default name.  The default name is the name of
\* the command of a file without name tag.
C25_DefaultName ==
    (Produced /\ TagsAt(groups[1], "Name") = {}) =>
        /\ default_name(path) = WithoutSuffix(path)
        /\ res.v.v.name = WithoutSuffix(path)

\* main has built the clap command of the model
CliBuilt == cli # NoCli

RECURSIVE CliFollowsModel(_, _)
\* the clap command x lists the options of the command c, then its
\* arguments, then its sub-commands, each in the order of c; the options
\* are global exactly when c has a sub-command, the arguments never are
CliFollowsModel(c, x) ==
    LET no == Len(c.options)
        na == Len(c.args)
    IN  /\ Len(x.args) = no + na
        /\ \A i \in 1..no :
              /\ x.args[i].id = c.options[i].name
              /\ ~x.args[i].positional
              /\ x.args[i].global = (Len(c.sub_commands) >= 1)
        /\ \A j \in 1..na :
              /\ x.args[no + j].id = c.args[j].name
              /\ x.args[no + j].positional
              /\ ~x.args[no + j].global
        /\ Len(x.subcommands) = Len(c.sub_commands)
        /\ \A k \in 1..Len(c.sub_commands) :
              /\ x.subcommands[k].name = c.sub_commands[k].name
              /\ CliFollowsModel(c.sub_commands[k], x.subcommands[k])

\* C26: to_cli of a command lists its options first, in model order, then
\* its positional arguments, in model order, then its sub-commands in model
\* order; the options are global exactly when the command has at least one
\* sub-command, and the arguments are never global.
C26_ToCliOrder ==
    CliBuilt =>
        /\ Len(cli.subcommands) = Len(commands)
        /\ \A k \in 1..Len(commands) :
              CliFollowsModel(commands[k], cli.subcommands[k])

C26_Witness ==
    /\ CliBuilt
    /\ Len(commands[1].options) = 2
    /\ Len(commands[1].args) = 2
    /\ Len(commands[1].sub_commands) = 2
    /\ cli.subcommands[1].args[1].global
    /\ cli.subcommands[1].args[3].positional
    /\ Len(cli.subcommands[1].subcommands[1].args) = 2

RECURSIVE ChainCommand(_)
\* the command of level n of the matched chain
ChainCommand(n) ==
    IF n = 1 THEN get_command(commands, matches.chain[1].name).v
    ELSE get_command(ChainCommand(n - 1).sub_commands, matches.chain[n].name).v

\* the last command of the matched chain
Leaf == ChainCommand(Len(matches.chain))

\* the path of the deepest command of the matched chain that has one
DeepestPath ==
    ChainCommand(MaxOf({n \in 1..Len(matches.chain) :
                           ChainCommand(n).path.some})).path.v

\* the pairs "name" "value" of the matched positional arguments of level n
PositionalPairs(n) ==
    LET IsPositional(m) ==
            \E i \in 1..Len(ChainCommand(n).args) :
                ChainCommand(n).args[i].name = m.id
        ms == SelectSeq(matches.chain[n].ids, IsPositional)
    IN  [i \in 1..Len(ms) |->
            QUOTE \o ms[i].id \o QUOTE \o <<SP>> \o
            QUOTE \o JoinWith(ms[i].raw, Len(ms[i].raw), <<",">>) \o QUOTE]

RECURSIVE ChainPairs(_)
\* the pairs of the levels 1 to n, from the root on
ChainPairs(n) ==
    IF n = 0 THEN <<>> ELSE ChainPairs(n - 1) \o PositionalPairs(n)

\* the line t begins with pre and ends with post
Encloses(t, pre, post) ==
    /\ Len(t) >= Len(pre) + Len(post)
    /\ SubSeq(t, 1, Len(pre)) = pre
    /\ SubSeq(t, Len(t) - Len(post) + 1, Len(t)) = post

\* the script of the matched chain as C27 describes it
EmbeddedScriptWritten ==
    /\ pc = "written"
    /\ Len(out) = (IF Leaf.path.some THEN 6 ELSE 7)
    /\ out[1] = <<"#","e","v","a","l">>
    /\ out[2] = TYPESET_ARGS
    /\ out[3] = CLI_ARGS_OPEN
                \o JoinWith(ChainPairs(Len(matches.chain)),
                            Len(ChainPairs(Len(matches.chain))), <<SP>>)
                \o <<")">>
    /\ out[4] = TYPESET_OPTS
    /\ Encloses(out[5], CLI_OPTS_OPEN, <<")">>)
    /\ out[6] = SOURCE_OPEN \o DeepestPath \o QUOTE
    /\ ~Leaf.path.some => out[7] = Leaf.name

\* C27: for a matched command chain root, ..., leaf, build_embedded_script
\* emits '#eval', 'typeset -A cli_args', the cli_args=(...) line with one
\* "name" "value" pair per matched positional argument from root to leaf,
\* 'typeset -A cli_opts', a cli_opts=(...) line, 'source "<path>"' with the
\* path of the deepest command of the chain that has one, and the leaf's
\* name on its own line exactly when the leaf has no path.
C27_EmbeddedScript ==
    (matches.ok /\ pc \in {"written", "panic"}) => EmbeddedScriptWritten

\* the text c begins with the line "# @ignore-at-root"
StartsIgnoreAtRoot(c) ==
    /\ Len(c) >= Len(L_ignore_at_root)
    /\ SubSeq(c, 1, Len(L_ignore_at_root)) = L_ignore_at_root

\* C28: the tag keyword ends at the first whitespace or hyphen, so the
\* line "# @ignore-at-root" is read as the ignore tag: the first tag of a
\* file that begins with it is Ignore, build_script_command returns
\* Ok(None), and Model::from adds no command for the file.
C28_IgnoreAtRoot ==
    /\ []((Done /\ StartsIgnoreAtRoot(content)) =>
             /\ Len(tags) >= 1
             /\ tags[1] = IgnoreTag
             /\ res = [ok |-> TRUE, v |-> None])
    /\ [][(Done /\ StartsIgnoreAtRoot(content)) => commands' = commands]_vars

\* a directory of a script and a file "# @ignore-at-root" followed by a sub
\* line: the model holds the one command of the script
C28_Witness ==
    /\ ModelBuilt
    /\ Len(entries) = 2
    /\ StartsIgnoreAtRoot(content)
    /\ Len(tags) = 2
    /\ tags[1] = IgnoreTag
    /\ Len(commands) = 1

\* the tag at position i of the stream ts is an Ignore tag that is not the
\* first tag, or a Name tag after a Sub tag
WithoutEffect(ts, i) ==
    \/ ts[i].t = "Ignore" /\ i > 1
    \/ ts[i].t = "Name" /\ \E j \in 1..(i - 1) : ts[j].t = "Sub"

RECURSIVE WithEffect(_, _)
\* the first n tags of the stream ts with those tags removed
WithEffect(ts, n) ==
    IF n = 0 THEN <<>>
    ELSE IF WithoutEffect(ts, n) THEN WithEffect(ts, n - 1)
    ELSE Append(WithEffect(ts, n - 1), ts[n])

\* C29: an Ignore tag that is not the first tag of the stream and a Name
\* tag in a sub-command group have no effect: the result is the one
\* assembled from the stream without those tags, and it is a command
\* unless the first tag of the stream is Ignore.
C29_NoEffect ==
    (Done /\ \E i \in 1..Len(tags) : WithoutEffect(tags, i)) =>
        /\ res = Assemble(Collect(WithEffect(tags, Len(tags)),
                                  Len(WithEffect(tags, Len(tags)))), path)
        /\ tags[1] # IgnoreTag => res.ok /\ res.v.some

\* an Ignore tag and a Name tag in the group of a sub-command
C29_Witness ==
    /\ Produced
    /\ Len(tags) = 3
    /\ tags[1].t = "Sub"
    /\ tags[2] = IgnoreTag
    /\ tags[3].t = "Name"
    /\ res.v.v.name = default_name(path)
    /\ Len(res.v.v.sub_commands) = 1
    /\ res.v.v.sub_commands[1].name = tags[1].name

\* C30: the synthetic argument "args" is added only when the scan yields
\* no tag: a file with at least one tag has the arguments of the arg and
\* vararg tags of group 0 and no other, so without such a tag the
\* arguments list of the root command is empty.
C30_SyntheticOnlyWithoutTags ==
    (Produced /\ Len(tags) > 0) =>
        /\ res.v.v.args = ArgsIn(groups[1])
        /\ \A i \in 1..Len(res.v.v.args) : res.v.v.args[i] # SyntheticArg
        /\ TagsAt(groups[1], "Arg") = {} => res.v.v.args = <<>>

\* only sub tags: group 0 is empty and the root command has no argument
C30_Witness ==
    /\ Produced
    /\ Len(tags) = 2
    /\ tags[1].t = "Sub"
    /\ tags[2].t = "Sub"
    /\ groups[1] = <<>>
    /\ res.v.v.args = <<>>
    /\ Len(res.v.v.sub_commands) = 2
====
